---- MODULE Spec2Model ----
(***************************************************************************)
(* A model of crop.py: the crop geometry of make_square, the centroid of   *)
(* get_face_center and the batch that main drives through a process pool.  *)
(*                                                                         *)
(* Pixel positions that the code holds as floats with a fractional part    *)
(* of one half (face_x - crop_width/2, (width - crop_width)/2) are kept    *)
(* doubled: a name ending in 2 holds twice the value of the code.          *)
(* A Python value that may be None is a sequence: <<>> is None and <<v>>   *)
(* is the value v.                                                         *)
(***************************************************************************)
EXTENDS Integers, Sequences, FiniteSets, TLC

None == <<>>
Some(v) == <<v>>

Abs(n) == IF n < 0 THEN -n ELSE n
Min(a, b) == IF a <= b THEN a ELSE b
Max(a, b) == IF a >= b THEN a ELSE b

RECURSIVE Pow2(_)
Pow2(n) == IF n <= 0 THEN 1 ELSE 2 * Pow2(n - 1)

(***************************************************************************)
(* Binary64 arithmetic of the two expressions the code truncates with      *)
(* int(): h * (a / b) and x / (c / L), for small non-negative integers.    *)
(* The quotient a / b is rounded to 53 bits, the outer operation is        *)
(* rounded again, and int() truncates.  When the exact value is not an     *)
(* integer the two roundings (relative error 2^-52) cannot move it across  *)
(* an integer, so the result is the floor; when it is an integer n the     *)
(* result is n or n - 1 according to the direction of the first rounding   *)
(* and the size of its error against half the float spacing below n.       *)
(***************************************************************************)
RECURSIVE PowMod2(_, _)
PowMod2(s, b) == IF s <= 0 THEN 1 % b ELSE (2 * PowMod2(s - 1, b)) % b

RECURSIVE Log2Up(_, _, _)
Log2Up(a, b, j) == IF Pow2(j + 1) * b <= a THEN Log2Up(a, b, j + 1) ELSE j

RECURSIVE Log2Down(_, _, _)
Log2Down(a, b, m) == IF a * Pow2(m) < b THEN Log2Down(a, b, m + 1) ELSE m

\* the exponent of the float a / b: the largest j with 2^j <= a / b
FloorLog2(a, b) == IF a >= b THEN Log2Up(a, b, 0) ELSE - Log2Down(a, b, 0)

RECURSIVE BinadeBelowFrom(_, _)
BinadeBelowFrom(n, k) == IF Pow2(k + 1) < n THEN BinadeBelowFrom(n, k + 1) ELSE k

\* the largest k with 2^k < n: the floats just below n are 2^(k-52) apart
BinadeBelow(n) == BinadeBelowFrom(n, -1)

\* A * 2^ea <= B * 2^eb
LeScaled(A, ea, B, eb) ==
    LET m == Min(ea, eb)
    IN  A * Pow2(ea - m) <= B * Pow2(eb - m)

\* the remainder of a * 2^(52 - j) by b: what rounding a / b to 53 bits drops
DroppedBits(a, b) ==
    LET j == FloorLog2(a, b)
    IN  ((a % b) * PowMod2(52 - j, b)) % b

\* int(h * (a / b)) for h >= 0, a > 0, b > 0
FloatMulTrunc(h, a, b) ==
    IF h = 0 \/ (h * a) % b # 0
    THEN (h * a) \div b
    ELSE LET n == (h * a) \div b
             j == FloorLog2(a, b)
             r == DroppedBits(a, b)
         IN  IF r = 0 \/ 2 * r > b
             THEN n
             ELSE IF LeScaled(2 * h * r, j, b, BinadeBelow(n)) THEN n ELSE n - 1

\* int(x / (c / L)) for x >= 0, c > 0, L > 0
FloatDivTrunc(x, c, L) ==
    IF x = 0 \/ (x * L) % c # 0
    THEN (x * L) \div c
    ELSE LET n == (x * L) \div c
             j == FloorLog2(c, L)
             r == DroppedBits(c, L)
         IN  IF r = 0 \/ 2 * r < L
             THEN n
             ELSE IF LeScaled(n * (L - r), 0, c, BinadeBelow(n) - 1 - j) THEN n ELSE n - 1


(***************************************************************************)
(* make_square, lines 128-172.  A ratio is None or a string, held as the   *)
(* sequence of its characters.                                             *)
(***************************************************************************)
Digits == {"0", "1", "2", "3", "4", "5", "6", "7", "8", "9"}

DigitValue(c) ==
    CASE c = "0" -> 0 [] c = "1" -> 1 [] c = "2" -> 2 [] c = "3" -> 3 [] c = "4" -> 4
      [] c = "5" -> 5 [] c = "6" -> 6 [] c = "7" -> 7 [] c = "8" -> 8 [] c = "9" -> 9

\* str.split(':'): the parts between the colons, one more than there are colons
RECURSIVE SplitColon(_)
SplitColon(s) ==
    IF \A i \in 1..Len(s) : s[i] # ":"
    THEN <<s>>
    ELSE LET i == CHOOSE k \in 1..Len(s) :
                      s[k] = ":" /\ \A m \in 1..(k - 1) : s[m] # ":"
         IN  <<SubSeq(s, 1, i - 1)>> \o SplitColon(SubSeq(s, i + 1, Len(s)))

RECURSIVE DecimalValue(_)
DecimalValue(t) ==
    IF t = <<>> THEN 0
    ELSE 10 * DecimalValue(SubSeq(t, 1, Len(t) - 1)) + DigitValue(t[Len(t)])

AllDigits(t) == t # <<>> /\ \A i \in 1..Len(t) : t[i] \in Digits

\* whether int(t) returns: an optional sign and then one digit or more
IsIntLiteral(t) ==
    \/ AllDigits(t)
    \/ t # <<>> /\ t[1] = "-" /\ AllDigits(Tail(t))

\* int(t) for a literal
IntOf(t) == IF t[1] = "-" THEN - DecimalValue(Tail(t)) ELSE DecimalValue(t)

\* target_width, target_height = map(int, ratio.split(':')), line 135:
\* ValueError unless there are exactly two parts and both are integers
RatioParses(s) ==
    LET parts == SplitColon(s)
    IN  Len(parts) = 2 /\ IsIntLiteral(parts[1]) /\ IsIntLiteral(parts[2])

TargetWidth(s) == IntOf(SplitColon(s)[1])
TargetHeight(s) == IntOf(SplitColon(s)[2])

Sign(n) == IF n < 0 THEN -1 ELSE IF n > 0 THEN 1 ELSE 0

\* int(side * (num / den)), lines 139 and 144, for den # 0
ScaledSide(side, num, den) ==
    IF num = 0 THEN 0
    ELSE Sign(num) * Sign(den) * FloatMulTrunc(side, Abs(num), Abs(den))

\* width/height > target_width/target_height, line 137, for th # 0
WiderThanTarget(width, height, tw, th) ==
    IF th > 0 THEN width * th > height * tw ELSE width * th < height * tw

SquareSize(width, height, errors) ==
    [crop_width |-> Min(width, height), crop_height |-> Min(width, height),
     errors |-> errors]

\* lines 132-150: the crop size, and the number of logging.error calls
CropSize(width, height, ratio) ==
    IF ratio = None \/ ratio = Some(<<>>)
    THEN SquareSize(width, height, 0)
    ELSE LET s == ratio[1] IN
         IF ~ RatioParses(s)
         THEN SquareSize(width, height, 1)                  \* ValueError
         ELSE LET tw == TargetWidth(s)
                  th == TargetHeight(s)
              IN  IF th = 0
                  THEN SquareSize(width, height, 1)         \* ZeroDivisionError, line 137
                  ELSE IF WiderThanTarget(width, height, tw, th)
                  THEN [crop_width |-> ScaledSide(height, tw, th),
                        crop_height |-> height, errors |-> 0]
                  ELSE IF tw = 0
                  THEN SquareSize(width, height, 1)         \* ZeroDivisionError, line 144
                  ELSE [crop_width |-> width,
                        crop_height |-> ScaledSide(width, th, tw), errors |-> 0]

\* SlideInside without the adjustment of lines 161-164: a crop that reaches
\* over the far edge is cut there instead of being slid back
SlideInsideCut(size, crop, face2) ==
    LET low0 == Max(0, face2 - crop)
    IN  <<low0, Min(2 * size, low0 + 2 * crop)>>

\* lines 155-164 on one axis, doubled: the low and the high edge of the crop
SlideInside(size, crop, face2) ==
    LET low0 == Max(0, face2 - crop)
        high == Min(2 * size, low0 + 2 * crop)
        low == IF high - low0 < 2 * crop THEN high - 2 * crop ELSE low0
    IN  <<low, high>>

\* lines 152-170: the box (left, top, right, bottom), doubled
Placement(width, height, crop_width, crop_height, face_center) ==
    IF face_center # None
    THEN LET h == SlideInside(width, crop_width, face_center[1][1])
             v == SlideInside(height, crop_height, face_center[1][2])
         IN  [left2 |-> h[1], top2 |-> v[1], right2 |-> h[2], bottom2 |-> v[2]]
    ELSE [left2 |-> width - crop_width, top2 |-> height - crop_height,
          right2 |-> (width - crop_width) + 2 * crop_width,
          bottom2 |-> (height - crop_height) + 2 * crop_height]


(***************************************************************************)
(* get_face_center, lines 68-126.  A detection is [box |-> <<x, y, width,  *)
(* height>>, confidence |-> c], the box in the coordinates of the resized  *)
(* image and the confidence in hundredths.  A centroid coordinate is the   *)
(* fraction <<n, d>> of value n / d; the division of line 126 is kept      *)
(* exact.                                                                  *)
(***************************************************************************)
MAX_DIMENSION == 800

CONFIDENCE_THRESHOLD == 95

\* scale = min(800 / width, 800 / height), line 75, is the float 800 / LongSide
LongSide(size) == Max(size[1], size[2])

\* (int(width * scale), int(height * scale)), lines 78-79
SmallSize(size) ==
    <<FloatMulTrunc(size[1], MAX_DIMENSION, LongSide(size)),
      FloatMulTrunc(size[2], MAX_DIMENSION, LongSide(size))>>

\* ScaledCoord without the division: the coordinate of the resized image
UnscaledCoord(v, size) == v

\* int(v / scale), lines 101-104 and 117-120: int() truncates toward zero
ScaledCoord(v, size) ==
    Sign(v) * FloatDivTrunc(Abs(v), MAX_DIMENSION, LongSide(size))

\* line 90
Accepted(faces) ==
    SelectSeq(faces, LAMBDA f : f.confidence >= CONFIDENCE_THRESHOLD)

\* lines 98-107: the rectangles drawn on the image, as [x, y, x + width, y + height]
RECURSIVE DrawnBoxes(_, _)
DrawnBoxes(faces, size) ==
    IF faces = <<>> THEN <<>>
    ELSE LET b == Head(faces).box
             x == ScaledCoord(b[1], size)
             y == ScaledCoord(b[2], size)
         IN  <<<<x, y, x + ScaledCoord(b[3], size), y + ScaledCoord(b[4], size)>>>>
               \o DrawnBoxes(Tail(faces), size)

\* lines 112-124: total_x and total_y after the loop over faces, doubled
RECURSIVE Totals2(_, _, _)
Totals2(faces, size, acc) ==
    IF faces = <<>> THEN acc
    ELSE LET b == Head(faces).box
             x_center2 == 2 * ScaledCoord(b[1], size) + ScaledCoord(b[3], size)
             y_center2 == 2 * ScaledCoord(b[2], size) + ScaledCoord(b[4], size)
         IN  Totals2(Tail(faces), size, <<acc[1] + x_center2, acc[2] + y_center2>>)

\* lines 68-126: the returned centroid (None when no detection is accepted), the
\* size the image is resized to and what show_faces draws on the image
get_face_center(size, found, show) ==
    LET faces == Accepted(found)
        total2 == Totals2(faces, size, <<0, 0>>)
    IN  [small_size |-> SmallSize(size),
         drawn |-> IF faces # <<>> /\ show THEN DrawnBoxes(faces, size) ELSE <<>>,
         center |-> IF faces = <<>> THEN None
                    ELSE Some(<<<<total2[1], 2 * Len(faces)>>,
                                <<total2[2], 2 * Len(faces)>>>>)]

(***************************************************************************)
(* State.                                                                  *)
(***************************************************************************)
VARIABLES
    \* make_square: its arguments and what it hands to image.crop
    image_size,     \* image.size: <<width, height>>
    ratio,          \* None or the ratio string
    face_center,    \* None or <<face_x, face_y>>, doubled
    cropped,        \* None before the call; then the crop size, box and error count
    \* get_face_center: its arguments, the detector's answer and what it returns
    photo_size,     \* image.size: <<width, height>>
    detections,     \* face_detector.detect_faces(img_array)
    show_faces,
    located,        \* None before the call; then the centroid, drawing and resize
    \* main and the pool: the invocation and the file system
    input_dir_exists,
    image_files,    \* the image files of the input directory, numbered
    overwrite,      \* args.overwrite
    num_workers,
    corrupt,        \* per file: whether processing it raises (Image.open fails)
    out_exists,     \* per file: whether its output path exists
    \* main
    main_pc,
    existing_files, \* line 236
    process_args,   \* line 255, as the files in order
    printed,        \* the messages of main that report on the batch: <<text, number>>
    progress,       \* the count the progress bar shows
    \* the pool
    worker_pc,      \* per worker process
    worker_task,    \* per worker: the position in process_args it runs, or 0
    face_detector,  \* per worker process: its global face_detector, 0 for None
    taken,          \* how many tasks left the pool's task queue
    finished,       \* the positions whose result reached the imap iterator
    \* bookkeeping of what happened, read by the properties only
    status,         \* per file: Pending, Skipped, Running, Done, Failed
    saves,          \* per file: how often the program saved its output
    handler,        \* per file: the worker that ran it, or 0
    detector_used,  \* per file: the detector instance its detection called, or 0
    constructions   \* per worker: how many MTCNN instances it constructed

cropVars == <<image_size, ratio, face_center, cropped>>

faceVars == <<photo_size, detections, show_faces, located>>

inputVars == <<input_dir_exists, image_files, overwrite, num_workers, corrupt>>

mainVars == <<main_pc, existing_files, process_args, printed, progress>>

poolVars == <<worker_pc, worker_task, face_detector, taken, finished>>

ghostVars == <<status, saves, handler, detector_used, constructions>>

batchVars == <<inputVars, out_exists, mainVars, poolVars, ghostVars>>

vars == <<cropVars, faceVars, batchVars>>

\* lines 128-172
make_square(size, center, r) ==
    LET cs == CropSize(size[1], size[2], r)
    IN  [crop_width |-> cs.crop_width, crop_height |-> cs.crop_height,
         errors |-> cs.errors,
         box |-> Placement(size[1], size[2], cs.crop_width, cs.crop_height, center)]

(***************************************************************************)
(* The arguments make_square is checked on.                                *)
(***************************************************************************)
MaxDim == 4

\* sides beyond MaxDim: 45 * (7 / 5) is a product the float arithmetic rounds down
SampleDims == {45, 63}

Dims == (1..MaxDim) \cup SampleDims

RatioTokens ==
    {<<"0">>, <<"1">>, <<"2">>, <<"5">>, <<"7">>, <<"1", "0">>, <<"-", "4">>,
     <<"x">>, <<>>}

RatioStrings ==
    (RatioTokens \ {<<>>})
      \cup {a \o <<":">> \o b : a, b \in RatioTokens}
      \cup {a \o <<":">> \o a \o <<":">> \o a : a \in RatioTokens}

\* doubled coordinates of a centroid on an axis of length n: outside the image
\* on both sides, on its edges and inside
CenterCoords2(n) == {-3, 1, n, 2 * n - 1, 2 * n + 3}

CropIdle ==
    /\ image_size = <<0, 0>>
    /\ ratio = None
    /\ face_center = None
    /\ cropped = None

FaceIdle ==
    /\ photo_size = <<0, 0>>
    /\ detections = <<>>
    /\ show_faces = FALSE
    /\ located = None

BatchIdle ==
    /\ input_dir_exists = FALSE
    /\ image_files = {}
    /\ overwrite = FALSE
    /\ num_workers = 0
    /\ corrupt = <<>>
    /\ out_exists = <<>>
    /\ main_pc = "off"
    /\ existing_files = {}
    /\ process_args = <<>>
    /\ printed = <<>>
    /\ progress = 0
    /\ worker_pc = <<>>
    /\ worker_task = <<>>
    /\ face_detector = <<>>
    /\ taken = 0
    /\ finished = {}
    /\ status = <<>>
    /\ saves = <<>>
    /\ handler = <<>>
    /\ detector_used = <<>>
    /\ constructions = <<>>

InitCrop ==
    /\ FaceIdle
    /\ BatchIdle
    /\ image_size \in Dims \X Dims
    /\ ratio \in {None} \cup {Some(s) : s \in RatioStrings}
    /\ face_center \in {None} \cup
          {Some(<<x, y>>) : x \in CenterCoords2(image_size[1]),
                            y \in CenterCoords2(image_size[2])}
    /\ cropped = None

MakeSquare ==
    /\ cropped = None
    /\ image_size # <<0, 0>>
    /\ cropped' = Some(make_square(image_size, face_center, ratio))
    /\ UNCHANGED <<image_size, ratio, face_center>>
    /\ UNCHANGED <<faceVars, batchVars>>

NextCrop == MakeSquare

SpecCrop == InitCrop /\ [][NextCrop]_vars


(***************************************************************************)
(* Claims about make_square, checked under SpecCrop.                       *)
(***************************************************************************)
Width == image_size[1]
Height == image_size[2]

\* a ratio string "rw:rh" of two positive integers
ValidRatio ==
    /\ ratio # None
    /\ RatioParses(ratio[1])
    /\ TargetWidth(ratio[1]) > 0
    /\ TargetHeight(ratio[1]) > 0

Clamp(v, lo, hi) == Max(lo, Min(v, hi))

\* C1: the box make_square hands to the crop lies inside the image and is not
\* empty: 0 <= left < right <= W and 0 <= top < bottom <= H, for every centroid
\* and every ratio argument; stated here for the ratio arguments that are absent
\* or two positive integers, which no fallback of the code concerns.
C1_CropRectInsideImage ==
    (cropped # None /\ (ratio = None \/ ValidRatio)) =>
        LET b == cropped[1].box
        IN  /\ 0 <= b.left2 /\ b.left2 < b.right2 /\ b.right2 <= 2 * Width
            /\ 0 <= b.top2 /\ b.top2 < b.bottom2 /\ b.bottom2 <= 2 * Height

\* C2: for a valid ratio rw:rh one side of the crop is the full side of the image
\* and the other is less than one pixel from the exact H*rw/rh (or W*rh/rw);
\* with no ratio the crop is the square of side min(W, H).
C2_RatioWithinOnePixel ==
    cropped # None =>
        LET c == cropped[1] IN
        /\ ValidRatio =>
              LET rw == TargetWidth(ratio[1])
                  rh == TargetHeight(ratio[1])
              IN  IF Width * rh > Height * rw
                  THEN /\ c.crop_height = Height
                       /\ Abs(c.crop_width * rh - Height * rw) < rh
                  ELSE /\ c.crop_width = Width
                       /\ Abs(c.crop_height * rw - Width * rh) < rw
        /\ ratio = None =>
              /\ c.crop_width = Min(Width, Height)
              /\ c.crop_height = Min(Width, Height)

\* C3: a ratio string that is malformed or has a zero or negative component
\* gives the square crop of side min(W, H) and one error-level diagnostic
\* (make_square returns, so the task is not failed by it).
C3_InvalidRatioFallsBackToSquare ==
    (cropped # None /\ ratio # None /\ ~ ValidRatio) =>
        /\ cropped[1].crop_width = Min(Width, Height)
        /\ cropped[1].crop_height = Min(Width, Height)
        /\ cropped[1].errors = 1

\* C4: for a crop size that fits the image the box is the reference placement:
\* with a centroid left = clamp(cx - crop_w/2, 0, W - crop_w) and
\* top = clamp(cy - crop_h/2, 0, H - crop_h), without one the centred
\* left = (W - crop_w)/2 and top = (H - crop_h)/2, and in both cases
\* right - left = crop_w and bottom - top = crop_h.
C4_PlacementIsClamp ==
    cropped # None =>
        LET c == cropped[1]
            b == c.box
        IN  (c.crop_width <= Width /\ c.crop_height <= Height) =>
              /\ b.right2 - b.left2 = 2 * c.crop_width
              /\ b.bottom2 - b.top2 = 2 * c.crop_height
              /\ IF face_center # None
                 THEN /\ b.left2 = Clamp(face_center[1][1] - c.crop_width, 0,
                                         2 * (Width - c.crop_width))
                      /\ b.top2 = Clamp(face_center[1][2] - c.crop_height, 0,
                                        2 * (Height - c.crop_height))
                 ELSE /\ b.left2 = Width - c.crop_width
                      /\ b.top2 = Height - c.crop_height

\* a centroid close to the right edge of an image wider than the crop: the crop
\* was slid back to end on that edge and keeps its width
C4_Witness ==
    /\ cropped # None
    /\ face_center # None
    /\ cropped[1].crop_width > 0 /\ cropped[1].crop_width < Width
    /\ face_center[1][1] < 2 * Width
    /\ face_center[1][1] + cropped[1].crop_width > 2 * Width
    /\ cropped[1].box.right2 = 2 * Width
    /\ cropped[1].box.left2 = 2 * (Width - cropped[1].crop_width)

\* the crop size never exceeds the image, so C4 covers every call
CropFitsImage ==
    cropped # None =>
        cropped[1].crop_width <= Width /\ cropped[1].crop_height <= Height


(***************************************************************************)
(* The arguments get_face_center is checked on.                            *)
(***************************************************************************)
MaxFaces == 2

\* images the resize shrinks, leaves alone and enlarges; 250 / (800 / 1536) is a
\* quotient the float arithmetic rounds down
PhotoSizes == {<<1000, 1000>>, <<1536, 1024>>, <<800, 600>>, <<400, 300>>}

\* boxes in the resized image; a detector may report a box that starts left of it
FaceBoxes ==
    {<<400, 400, 200, 200>>, <<401, 0, 200, 401>>, <<0, 200, 400, 400>>,
     <<-3, 1, 200, 250>>, <<250, 401, 1, 3>>}

Confidences == {94, 95, 98}

Detections == [box : FaceBoxes, confidence : Confidences]

RECURSIVE SeqsUpTo(_, _)
SeqsUpTo(S, n) ==
    IF n = 0 THEN {<<>>}
    ELSE LET shorter == SeqsUpTo(S, n - 1)
         IN  shorter \cup {Append(q, e) : q \in shorter, e \in S}

InitFace ==
    /\ CropIdle
    /\ BatchIdle
    /\ photo_size \in PhotoSizes
    /\ detections \in SeqsUpTo(Detections, MaxFaces)
    /\ show_faces \in BOOLEAN
    /\ located = None

GetFaceCenter ==
    /\ located = None
    /\ photo_size # <<0, 0>>
    /\ located' = Some(get_face_center(photo_size, detections, show_faces))
    /\ UNCHANGED <<photo_size, detections, show_faces>>
    /\ UNCHANGED <<cropVars, batchVars>>

NextFace == GetFaceCenter

SpecFace == InitFace /\ [][NextFace]_vars


(***************************************************************************)
(* Claims about get_face_center, checked under SpecFace.                   *)
(***************************************************************************)
AcceptedIdx ==
    {i \in 1..Len(detections) : detections[i].confidence >= CONFIDENCE_THRESHOLD}

IsAccepted(i) == detections[i].confidence >= CONFIDENCE_THRESHOLD

\* twice the sum of the box centers of the accepted detections among the first
\* k, in the coordinates the detector reports: axis 1 is x and width, axis 2 is
\* y and height
RECURSIVE RawCentersUpTo(_, _)
RawCentersUpTo(axis, k) ==
    IF k = 0 THEN 0
    ELSE RawCentersUpTo(axis, k - 1)
           + (IF IsAccepted(k)
              THEN 2 * detections[k].box[axis] + detections[k].box[axis + 2]
              ELSE 0)

RawCenters2(axis) == RawCentersUpTo(axis, Len(detections))

\* the same sum with every coordinate as int(v / scale)
RECURSIVE TruncatedCentersUpTo(_, _)
TruncatedCentersUpTo(axis, k) ==
    IF k = 0 THEN 0
    ELSE TruncatedCentersUpTo(axis, k - 1)
           + (IF IsAccepted(k)
              THEN 2 * ScaledCoord(detections[k].box[axis], photo_size)
                     + ScaledCoord(detections[k].box[axis + 2], photo_size)
              ELSE 0)

TruncatedCenters2(axis) == TruncatedCentersUpTo(axis, Len(detections))

\* C5: the centroid is the unweighted mean of the accepted detections' box centers
\* (x + width/2, y + height/2), each box expressed in the coordinates of the
\* original image by dividing by the scale factor 800 / max(W, H):
\* centroid = (1/n) * sum((2x + w) / 2 / scale) on each axis.
C5_CentroidIsMeanOfScaledCenters ==
    (located # None /\ AcceptedIdx # {}) =>
        /\ located[1].center # None
        /\ \A axis \in {1, 2} :
              LET c == located[1].center[1][axis]
              IN  c[1] * 2 * MAX_DIMENSION * Cardinality(AcceptedIdx)
                    = c[2] * LongSide(photo_size) * RawCenters2(axis)

\* C5 as amended: the centroid is the unweighted mean of the centers of the
\* accepted boxes after each coordinate was divided by the scale factor and
\* truncated toward zero to whole pixels; it is therefore at most 1.5 pixels
\* below and at most 1 pixel above the mean of the untruncated centers; with no
\* accepted detection there is no centroid.
C5_CentroidIsMeanOfTruncatedCenters ==
    located # None =>
        IF AcceptedIdx = {}
        THEN located[1].center = None
        ELSE /\ located[1].center # None
             /\ \A axis \in {1, 2} :
                   LET c == located[1].center[1][axis]
                       n == Cardinality(AcceptedIdx)
                       mine == c[1] * 2 * MAX_DIMENSION * n
                       exact == c[2] * LongSide(photo_size) * RawCenters2(axis)
                       pixel == c[2] * 2 * MAX_DIMENSION * n
                   IN  /\ c[2] > 0
                       /\ c[1] * 2 * n = c[2] * TruncatedCenters2(axis)
                       /\ 2 * mine >= 2 * exact - 3 * pixel
                       /\ mine <= exact + pixel

\* two accepted detections with different boxes, whose truncated coordinates
\* move the centroid off the mean of the untruncated centers
C5_Witness ==
    /\ located # None
    /\ Len(detections) = 2
    /\ Cardinality(AcceptedIdx) = 2
    /\ detections[1].box # detections[2].box
    /\ located[1].center # None
    /\ located[1].center[1][1][1] * 2 * MAX_DIMENSION * 2
         # located[1].center[1][1][2] * LongSide(photo_size) * RawCenters2(1)


(***************************************************************************)
(* main and the process pool, lines 174-270.  A worker process runs        *)
(* init_worker once and then takes tasks from the pool's queue one at a    *)
(* time; process_single_image is two steps, the check of line 179 and the  *)
(* rest, because the file system may change between them.  tqdm counts     *)
(* what pool.imap yields, and imap yields the results in the order of      *)
(* process_args.                                                           *)
(***************************************************************************)
MaxFiles == 2

MaxWorkers == 2

Workers == 1..num_workers

RECURSIVE SortedSeq(_)
SortedSeq(S) ==
    IF S = {} THEN <<>>
    ELSE LET m == CHOOSE x \in S : \A y \in S : x <= y
         IN  <<m>> \o SortedSeq(S \ {m})

\* ShouldSkip without the check of line 179
ShouldSkipNever(ow, exists) == FALSE

\* line 179: not overwrite and os.path.exists(output_path)
ShouldSkip(ow, exists) == ~ ow /\ exists

\* TaskEnd without the try of line 177: the exception leaves process_single_image
\* and the pool hands it to main as the task's result
TaskEndUncaught(raised) == IF raised THEN "Raised" ELSE "Done"

\* lines 177 and 204-205: an exception of any step is caught and logged, and
\* process_single_image returns
TaskEnd(raised) == IF raised THEN "Failed" ELSE "Done"

\* InitWorkerDetector without the global statement of line 29: the instance is
\* bound to a local name and the global stays None
InitWorkerKeepsNone(current, fresh) == current

\* lines 29-30: the global face_detector after init_worker
InitWorkerDetector(current, fresh) == fresh

\* lines 237-240: the files left after the pre-filter
RemainingFiles(files, existing, ow, exists) ==
    IF existing # {} /\ ~ ow THEN {f \in files : ~ exists[f]} ELSE files

\* lines 263-268: pool.imap yields the result of the next position of
\* process_args once it is there
NextResultReady(done, shown) == (shown + 1) \in done

InitBatch ==
    /\ CropIdle
    /\ FaceIdle
    /\ input_dir_exists \in BOOLEAN
    /\ image_files \in {1..n : n \in 0..MaxFiles}
    /\ ~ input_dir_exists => image_files = {}
    /\ overwrite \in BOOLEAN
    /\ num_workers \in 1..MaxWorkers
    /\ corrupt \in [image_files -> BOOLEAN]
    /\ out_exists \in [image_files -> BOOLEAN]
    /\ main_pc = "start"
    /\ existing_files = {}
    /\ process_args = <<>>
    /\ printed = <<>>
    /\ progress = 0
    /\ worker_pc = [w \in Workers |-> "unborn"]
    /\ worker_task = [w \in Workers |-> 0]
    /\ face_detector = [w \in Workers |-> 0]
    /\ taken = 0
    /\ finished = {}
    /\ status = [f \in image_files |-> "Pending"]
    /\ saves = [f \in image_files |-> 0]
    /\ handler = [f \in image_files |-> 0]
    /\ detector_used = [f \in image_files |-> 0]
    /\ constructions = [w \in Workers |-> 0]

\* lines 219-236: the pre-flight checks and the scan for existing outputs
MainScan ==
    /\ main_pc = "start"
    /\ IF ~ input_dir_exists
       THEN /\ printed' = Append(printed, <<"input directory does not exist", -1>>)
            /\ main_pc' = "returned"
            /\ UNCHANGED existing_files
       ELSE IF image_files = {}
       THEN /\ printed' = Append(printed, <<"no images found", -1>>)
            /\ main_pc' = "returned"
            /\ UNCHANGED existing_files
       ELSE /\ existing_files' = {f \in image_files : out_exists[f]}
            /\ main_pc' = "scanned"
            /\ UNCHANGED printed
    /\ UNCHANGED <<process_args, progress>>
    /\ UNCHANGED <<cropVars, faceVars, inputVars, out_exists, poolVars, ghostVars>>

\* lines 237-262: the pre-filter, the task list and the start of the pool
MainDispatch ==
    /\ main_pc = "scanned"
    /\ LET remaining == RemainingFiles(image_files, existing_files, overwrite, out_exists)
           notes == IF existing_files # {} /\ ~ overwrite
                    THEN <<<<"existing files", Cardinality(existing_files)>>>>
                    ELSE <<>>
       IN  /\ status' = [f \in image_files |->
                           IF f \in remaining THEN status[f] ELSE "Skipped"]
           /\ IF remaining = {}
              THEN /\ printed' = printed \o notes \o <<<<"no new images", -1>>>>
                   /\ main_pc' = "returned"
                   /\ UNCHANGED <<process_args, worker_pc>>
              ELSE /\ printed' = printed \o notes
                                   \o <<<<"images to process", Cardinality(remaining)>>,
                                        <<"worker processes", num_workers>>>>
                   /\ process_args' = SortedSeq(remaining)
                   /\ worker_pc' = [w \in Workers |-> "booting"]
                   /\ main_pc' = "iterating"
    /\ UNCHANGED <<existing_files, progress>>
    /\ UNCHANGED <<worker_task, face_detector, taken, finished>>
    /\ UNCHANGED <<saves, handler, detector_used, constructions>>
    /\ UNCHANGED <<cropVars, faceVars, inputVars, out_exists>>

\* lines 27-30, run by the pool in each worker process before its first task
InitWorker(w) ==
    /\ worker_pc[w] = "booting"
    /\ face_detector' =
          [face_detector EXCEPT ![w] = InitWorkerDetector(face_detector[w], w)]
    /\ constructions' = [constructions EXCEPT ![w] = @ + 1]
    /\ worker_pc' = [worker_pc EXCEPT ![w] = "idle"]
    /\ UNCHANGED <<worker_task, taken, finished>>
    /\ UNCHANGED <<status, saves, handler, detector_used>>
    /\ UNCHANGED <<cropVars, faceVars, inputVars, out_exists, mainVars>>

\* a worker takes the next task of the queue and runs lines 176-180
StartTask(w) ==
    /\ worker_pc[w] = "idle"
    /\ taken < Len(process_args)
    /\ LET pos == taken + 1
           f == process_args[pos]
       IN  /\ taken' = pos
           /\ handler' = [handler EXCEPT ![f] = w]
           /\ IF ShouldSkip(overwrite, out_exists[f])
              THEN /\ status' = [status EXCEPT ![f] = "Skipped"]
                   /\ finished' = finished \cup {pos}
                   /\ UNCHANGED <<worker_pc, worker_task>>
              ELSE /\ status' = [status EXCEPT ![f] = "Running"]
                   /\ worker_pc' = [worker_pc EXCEPT ![w] = "running"]
                   /\ worker_task' = [worker_task EXCEPT ![w] = pos]
                   /\ UNCHANGED finished
    /\ UNCHANGED <<face_detector, saves, detector_used, constructions>>
    /\ UNCHANGED <<cropVars, faceVars, inputVars, out_exists, mainVars>>

\* lines 182-205: open, rotate, detect, crop and save; detect_faces on a
\* face_detector that is None raises like any other step
FinishTask(w) ==
    /\ worker_pc[w] = "running"
    /\ LET pos == worker_task[w]
           f == process_args[pos]
           raised == corrupt[f] \/ face_detector[w] = 0
       IN  /\ status' = [status EXCEPT ![f] = TaskEnd(raised)]
           /\ detector_used' =
                 [detector_used EXCEPT ![f] = IF corrupt[f] THEN 0 ELSE face_detector[w]]
           /\ saves' = [saves EXCEPT ![f] = IF raised THEN @ ELSE @ + 1]
           /\ out_exists' = [out_exists EXCEPT ![f] = IF raised THEN @ ELSE TRUE]
           /\ finished' = finished \cup {pos}
    /\ worker_pc' = [worker_pc EXCEPT ![w] = "idle"]
    /\ worker_task' = [worker_task EXCEPT ![w] = 0]
    /\ UNCHANGED <<face_detector, taken, handler, constructions>>
    /\ UNCHANGED <<cropVars, faceVars, inputVars, mainVars>>

\* one step of list(tqdm(pool.imap(...))), lines 263-268: the next result in
\* order is yielded and counted; a result that is an exception is raised in main
\* and leaving the with block terminates the pool
MainNext ==
    /\ main_pc = "iterating"
    /\ progress < Len(process_args)
    /\ NextResultReady(finished, progress)
    /\ IF status[process_args[progress + 1]] \in {"Skipped", "Done", "Failed"}
       THEN /\ progress' = progress + 1
            /\ UNCHANGED <<main_pc, worker_pc>>
       ELSE /\ main_pc' = "crashed"
            /\ worker_pc' = [w \in Workers |-> "terminated"]
            /\ UNCHANGED progress
    /\ UNCHANGED <<existing_files, process_args, printed>>
    /\ UNCHANGED <<worker_task, face_detector, taken, finished>>
    /\ UNCHANGED <<cropVars, faceVars, inputVars, out_exists, ghostVars>>

\* lines 262 and 270: the iterator is exhausted, the with block terminates the
\* pool and main prints its last message
MainComplete ==
    /\ main_pc = "iterating"
    /\ progress = Len(process_args)
    /\ main_pc' = "done"
    /\ worker_pc' = [w \in Workers |-> "terminated"]
    /\ printed' = Append(printed, <<"processing complete", -1>>)
    /\ UNCHANGED <<existing_files, process_args, progress>>
    /\ UNCHANGED <<worker_task, face_detector, taken, finished>>
    /\ UNCHANGED <<cropVars, faceVars, inputVars, out_exists, ghostVars>>

\* another program creates the output file of a task that has not ended; once
\* the task has passed line 179, nothing reads os.path.exists of its output again
ExternalCreate(f) ==
    /\ main_pc \in {"start", "scanned", "iterating"}
    /\ status[f] \in {"Pending", "Running"}
    /\ ~ out_exists[f]
    /\ out_exists' = [out_exists EXCEPT ![f] = TRUE]
    /\ UNCHANGED <<cropVars, faceVars, inputVars, mainVars, poolVars, ghostVars>>

MainStep == MainScan \/ MainDispatch \/ MainNext \/ MainComplete

WorkerStep(w) ==
    /\ w \in Workers
    /\ (InitWorker(w) \/ StartTask(w) \/ FinishTask(w))

NextBatch ==
    \/ MainScan
    \/ MainDispatch
    \/ MainNext
    \/ MainComplete
    \/ \E w \in Workers : InitWorker(w)
    \/ \E w \in Workers : StartTask(w)
    \/ \E w \in Workers : FinishTask(w)
    \/ \E f \in image_files : ExternalCreate(f)

SpecBatch == InitBatch /\ [][NextBatch]_vars

\* the operating system schedules main and every worker process, and every
\* step of a task ends
FairSpecBatch ==
    /\ SpecBatch
    /\ WF_vars(MainStep)
    /\ \A w \in 1..MaxWorkers : WF_vars(WorkerStep(w))


(***************************************************************************)
(* Claims about the batch, checked under SpecBatch and FairSpecBatch.      *)
(***************************************************************************)
FilesWith(st) == {f \in image_files : status[f] = st}

\* every task has ended, each with the outcome its own input decides
EndedWithOwnOutcomes ==
    \A f \in image_files :
        /\ status[f] \in {"Skipped", "Done", "Failed"}
        /\ status[f] = "Done" => ~ corrupt[f] /\ saves[f] = 1
        /\ status[f] = "Failed" => corrupt[f] /\ saves[f] = 0
        /\ status[f] = "Skipped" => ~ overwrite /\ out_exists[f] /\ saves[f] = 0

\* C6: when a step of a running task raises, the error is caught in
\* process_single_image and the task ends Failed; the batch is not aborted:
\* every other task still ends Done, Skipped or Failed as its own input decides,
\* and main reaches its completed state.
C6_FailureIsContained ==
    (\E f \in image_files : status[f] = "Running" /\ corrupt[f])
        ~> (main_pc = "done" /\ EndedWithOwnOutcomes)

\* a completed batch in which a task failed and the worker that ran it went on
\* to finish a later task
C6_Witness ==
    /\ main_pc = "done"
    /\ \E f, g \in image_files :
          /\ f < g
          /\ status[f] = "Failed"
          /\ status[g] = "Done"
          /\ handler[f] = handler[g]

\* C7: with overwrite = false a task whose output exists when it leaves Pending
\* goes to Skipped, with no processing and no write of the output, whether main's
\* pre-filter or the worker finds the file; and when every output existed at the
\* scan, no task is dispatched, nothing is written and nothing fails.
C7_ExistingOutputIsSkipped ==
    /\ [][\A f \in image_files :
            (status[f] = "Pending" /\ status'[f] # "Pending"
               /\ out_exists[f] /\ ~ overwrite)
              => (status'[f] = "Skipped" /\ saves' = saves
                    /\ detector_used' = detector_used)]_vars
    /\ [](\A f \in image_files :
            status[f] = "Skipped" => saves[f] = 0 /\ detector_used[f] = 0)
    /\ []((main_pc \notin {"start", "scanned"} /\ ~ overwrite
             /\ image_files # {} /\ existing_files = image_files)
            => /\ main_pc = "returned"
               /\ process_args = <<>>
               /\ taken = 0
               /\ \A f \in image_files : status[f] = "Skipped" /\ saves[f] = 0)

\* a task that passed the pre-filter (its output did not exist at the scan) and
\* was skipped by the worker that took it, because the file had appeared
C7_Witness ==
    \E f \in image_files :
        /\ f \notin existing_files
        /\ \E i \in 1..Len(process_args) : process_args[i] = f
        /\ handler[f] # 0
        /\ status[f] = "Skipped"
        /\ saves[f] = 0

\* C8: the progress count reflects the number of finished tasks independent of
\* their order: a task that finished is counted without waiting for a task
\* submitted before it, so whenever main waits for a result, every finished task
\* has been counted.
C8_ProgressCountsFinishedTasks ==
    (main_pc = "iterating" /\ ~ NextResultReady(finished, progress))
        => progress = Cardinality(finished)

\* C9: when the batch run ends, main has reported the counts of processed,
\* skipped and failed tasks, equal to the numbers of tasks that ended Done,
\* Skipped and Failed (which sum to the number of input files).
C9_FinalSummaryReportsCounts ==
    main_pc = "done" =>
        /\ \E i \in 1..Len(printed) :
              printed[i] = <<"processed", Cardinality(FilesWith("Done"))>>
        /\ \E i \in 1..Len(printed) :
              printed[i] = <<"skipped", Cardinality(FilesWith("Skipped"))>>
        /\ \E i \in 1..Len(printed) :
              printed[i] = <<"failed", Cardinality(FilesWith("Failed"))>>

\* the parts of C10 that do not depend on when the instance is constructed: never
\* more than one instance per worker, a task's detection calls the instance of
\* the worker that runs it, and no two workers hold the same instance
DetectorPerWorker ==
    /\ \A w \in Workers : constructions[w] <= 1
    /\ \A f \in image_files :
          /\ handler[f] # 0 => face_detector[handler[f]] # 0
          /\ status[f] = "Done" =>
                detector_used[f] # 0 /\ detector_used[f] = face_detector[handler[f]]
    /\ \A v, w \in Workers :
          (v # w /\ face_detector[v] # 0) => face_detector[v] # face_detector[w]

\* C10: each worker constructs exactly one Face Locator lazily, on its first
\* use (none for a worker that handles no task); it exists before the worker's
\* first detection, is reused for every task of the worker and is not shared.
C10_DetectorBuiltOnFirstUse ==
    /\ DetectorPerWorker
    /\ \A w \in Workers :
          constructions[w] > 0 => \E f \in image_files : handler[f] = w

\* C10 as amended: each worker constructs its one Face Locator in the pool's
\* initializer when the worker starts, before it takes a task and also when it
\* never takes one; the instance is used by every task of the worker and is not
\* shared.
C10_DetectorBuiltAtWorkerStart ==
    /\ DetectorPerWorker
    /\ \A w \in Workers :
          /\ worker_pc[w] \in {"unborn", "booting"} => constructions[w] = 0
          /\ worker_pc[w] \in {"idle", "running"} =>
                constructions[w] = 1 /\ face_detector[w] # 0

\* a completed batch in which one worker ran two tasks with its one instance
\* and another worker constructed an instance and ran no task
C10_Witness ==
    /\ main_pc = "done"
    /\ \E w \in Workers :
          /\ constructions[w] = 1
          /\ \A f \in image_files : handler[f] # w
    /\ \E f, g \in image_files :
          /\ f # g
          /\ status[f] = "Done" /\ status[g] = "Done"
          /\ handler[f] = handler[g]
          /\ detector_used[f] = detector_used[g]

====
